---- MODULE Spec2Model ----
(***************************************************************************)
(* The rollup driver of opnode/rollup/driver/state.go: the state struct,   *)
(* Start/Close, the event loop and its handlers, together with the L1      *)
(* chain, the L2 engine, the output pipeline and the head finders it       *)
(* calls.                                                                  *)
(***************************************************************************)
EXTENDS Integers, Sequences, FiniteSets, TLC

\* ------------------------------------------------------------------ bounds
\* Highest L1 block number of the block universe.
MaxL1 == 2
\* Highest L2 block number the pipeline may produce.
MaxL2 == 2

\* --------------------------------------------------------- rollup config
SeqWindowSize == 2
BlockTime == 2
\* Config.Genesis.L1.Number
GenesisL1Number == 1
\* make(chan struct{}, 1) for both request channels.
ChanCap == 1

\* The two L1 branches share the blocks numbered 0..ForkAt: a reorg replaces
\* the topmost block.
ForkAt == MaxL1 - 1


Min(a, b) == IF a < b THEN a ELSE b

\* ------------------------------------------------------------ references
ZeroID == [hash |-> 0, number |-> 0, time |-> 0]
ZeroL1Ref == [self |-> ZeroID, parent |-> ZeroID]
ZeroL2Ref == [self |-> ZeroID, l1Origin |-> ZeroID]

L1Hash(n, br) == 1 + 2 * n + (IF n > ForkAt THEN br ELSE 0)
L1Time(n) == 2 * n + 1
L1ID(n, br) == [hash |-> L1Hash(n, br), number |-> n, time |-> L1Time(n)]
L1Ref(n, br) ==
  [self |-> L1ID(n, br), parent |-> IF n = 0 THEN ZeroID ELSE L1ID(n - 1, br)]
L1Universe == {L1Ref(n, br) : n \in 0..MaxL1, br \in 0..1}

L2Hash(k, oh) == 100 + 20 * k + oh
L2Ref(k, origin) ==
  [self |-> [hash |-> L2Hash(k, origin.hash), number |-> k, time |-> BlockTime * k],
   l1Origin |-> origin]

VARIABLES
  \* DriverState
  l1Head, l2Head, l2SafeHead, l2Finalized, l1Window,
  \* role, channels and the loop's position
  sequencer, stepRequest, l2BlockCreationReq, done, pc,
  \* the L1 node: canonical branch and height
  canon, tip,
  \* observation of the last handled event
  ev

vars ==
  <<l1Head, l2Head, l2SafeHead, l2Finalized, l1Window, sequencer,
    stepRequest, l2BlockCreationReq, done, pc, canon, tip, ev>>

driverState == <<l1Head, l2Head, l2SafeHead, l2Finalized, l1Window>>

\* ------------------------------------------------------------- L1 chain
\* l1.L1BlockRefByNumber: the canonical block at a height.
L1BlockRefByNumber(n) ==
  IF n <= tip THEN [ok |-> TRUE, ref |-> L1Ref(n, canon)]
  ELSE [ok |-> FALSE, ref |-> ZeroL1Ref]

\* l1.L1BlockRefByHash: any known block, canonical or not.
L1BlockRefByHash(h) ==
  LET n == (h - 1) \div 2
      br == (h - 1) % 2
  IN IF h >= 1 /\ n <= MaxL1 /\ L1Hash(n, br) = h
     THEN [ok |-> TRUE, ref |-> L1Ref(n, br)]
     ELSE [ok |-> FALSE, ref |-> ZeroL1Ref]

\* l1.L1HeadBlockRef
L1HeadBlockRef == L1Ref(tip, canon)

\* l1.L1Range: the canonical blocks following `begin`, ascending, contiguous.
L1Range(begin) ==
  [i \in 1..(IF tip > begin.number THEN tip - begin.number ELSE 0) |->
     L1ID(begin.number + i, canon)]

\* ---------------------------------------------------- request channels
\* select { case ch <- struct{}{}: default: }
requestStepUncapped(n) == n + 1
requestStep(n) == IF n < ChanCap THEN n + 1 ELSE n

createBlock(n) == IF n < ChanCap THEN n + 1 ELSE n

\* ------------------------------------------------------- window buffer
l1WindowEndOf(window, head) ==
  IF Len(window) = 0 THEN head.l1Origin ELSE window[Len(window)]

l1WindowEnd == l1WindowEndOf(l1Window, l2Head)

extendL1Window(window, nexts) == window \o nexts

sequencingWindowWhole(window) ==
  [ok |-> Len(window) > 0, window |-> window]
sequencingWindow(window) ==
  IF Len(window) < SeqWindowSize THEN [ok |-> FALSE, window |-> <<>>]
  ELSE [ok |-> TRUE, window |-> SubSeq(window, 1, SeqWindowSize)]

EvictLast(window) == SubSeq(window, 1, Len(window) - 1)
EvictHead(window) == Tail(window)

\* ------------------------------------------------------------ lag test
\* s.l1Head.Self.Number - s.l2Head.L1Origin.Number >= s.Config.SeqWindowSize
\* in uint64: when the origin is ahead the difference wraps to
\* 2^64 - (origin - head), which exceeds every window size of the model.
LagAboveWindow(headNumber, originNumber) ==
  IF headNumber >= originNumber THEN headNumber - originNumber > SeqWindowSize
  ELSE TRUE
LagAtLeastWindow(headNumber, originNumber) ==
  IF headNumber >= originNumber THEN headNumber - originNumber >= SeqWindowSize
  ELSE TRUE

\* ------------------------------------------------------ observation
\* What the last handled event did: its kind, whether it succeeded, whether
\* the L1 head it received, whether an L1 query of the ancestor search
\* failed, the base handed to the head
\* finders, the window handed to output.step, the number of blocks the range
\* query returned, the origin handed to output.newBlock and the number of
\* batch submissions dispatched, and whether a request it posted met a full
\* channel, the result of findNextL1Origin, and whether the head it found
\* to be the current head is the one the reorg branch handled in the event
\* before.
NoOrigin == [id |-> ZeroID, err |-> FALSE, queried |-> FALSE]
NoEv ==
  [kind |-> "env", ok |-> TRUE, head |-> ZeroL1Ref, queryFailed |-> FALSE,
   finderBases |-> <<>>,
   stepWindows |-> <<>>, fetched |-> 0, buildOrigins |-> <<>>, batches |-> 0,
   absorbed |-> FALSE, nextOrigin |-> NoOrigin, redelivered |-> FALSE]

\* ------------------------------------------------- reorg base search
\* findL1ReorgBase: walk from the new head towards its ancestors until the
\* canonical block at the same height has the same hash.  The query with
\* index failAt (0: none) fails, as does a lookup of an unknown block.  Both
\* failure returns are `eth.L1BlockRef{}, nil`: the zero reference and no
\* error.
RECURSIVE ReorgWalk(_, _, _)
ReorgWalk(n, q, failAt) ==
  LET canonical == L1BlockRefByNumber(n.self.number)
      parent == L1BlockRefByHash(n.parent.hash)
  IN IF q + 1 = failAt \/ ~canonical.ok
     THEN [ref |-> ZeroL1Ref, err |-> FALSE, queryFailed |-> TRUE]
     ELSE IF canonical.ref.self.hash = n.self.hash
     THEN [ref |-> n, err |-> FALSE, queryFailed |-> FALSE]
     ELSE IF q + 2 = failAt \/ ~parent.ok
     THEN [ref |-> ZeroL1Ref, err |-> FALSE, queryFailed |-> TRUE]
     ELSE ReorgWalk(parent.ref, q + 2, failAt)

findL1ReorgBase(newL1Head, failAt) == ReorgWalk(newL1Head, 0, failAt)

\* The queries of the search that may be the one to fail (0: none does).
RECURSIVE QueryCount(_)
QueryCount(n) ==
  LET canonical == L1BlockRefByNumber(n.self.number)
      parent == L1BlockRefByHash(n.parent.hash)
  IN IF ~canonical.ok \/ canonical.ref.self.hash = n.self.hash THEN 1
     ELSE IF ~parent.ok THEN 2
     ELSE 2 + QueryCount(parent.ref)
FailPoints(newL1Head) == 0..QueryCount(newL1Head)

\* ------------------------------------------------------- head finders
BranchOf(id) == IF id.hash > 0 THEN (id.hash - 1) % 2 ELSE 0

\* The L2 block `back` steps before the latest block that is no later than
\* `start` and whose origin is `base` or one of its ancestors.
Max0(a) == IF a < 0 THEN 0 ELSE a
L2BlockBefore(start, base, back) ==
  L2Ref(Max0(start.self.number - back),
        L1ID(Max0(Min(base.number, start.l1Origin.number) - back),
             BranchOf(base)))

\* sync.FindUnsafeL2Head: an error, or the latest L2 block whose ancestry is
\* consistent with `base`.
FindUnsafeL2Head(start, base) ==
  {[ok |-> FALSE, ref |-> ZeroL2Ref],
   [ok |-> TRUE, ref |-> L2BlockBefore(start, base, 0)]}

\* sync.FindSafeL2Head: an error, or an L2 block found likewise, which the
\* sequencing window may place before the unsafe one.
FindSafeL2Head(start, base) ==
  {[ok |-> FALSE, ref |-> ZeroL2Ref]} \cup
  {[ok |-> TRUE, ref |-> L2BlockBefore(start, base, back)] : back \in 0..1}

\* The result slot of a finder the loop did not reach.
NotCalled == [ok |-> FALSE, ref |-> ZeroL2Ref]

\* Lines 277-291 of the loop: both finders, then the four assignments.
ReorgApplyEager(newL1Head, u, s) ==
  IF ~u.ok
  THEN [ok |-> FALSE, l1Head |-> l1Head, l1Window |-> l1Window,
        l2Head |-> l2Head, l2SafeHead |-> l2SafeHead]
  ELSE IF ~s.ok
  THEN [ok |-> FALSE, l1Head |-> l1Head, l1Window |-> l1Window,
        l2Head |-> u.ref, l2SafeHead |-> l2SafeHead]
  ELSE [ok |-> TRUE, l1Head |-> newL1Head, l1Window |-> <<>>,
        l2Head |-> u.ref, l2SafeHead |-> s.ref]
ReorgApplyKeepL1Head(newL1Head, u, s) ==
  IF ~u.ok \/ ~s.ok
  THEN [ok |-> FALSE, l1Head |-> l1Head, l1Window |-> l1Window,
        l2Head |-> l2Head, l2SafeHead |-> l2SafeHead]
  ELSE [ok |-> TRUE, l1Head |-> l1Head, l1Window |-> <<>>,
        l2Head |-> u.ref, l2SafeHead |-> s.ref]
ReorgApply(newL1Head, u, s) ==
  IF ~u.ok \/ ~s.ok
  THEN [ok |-> FALSE, l1Head |-> l1Head, l1Window |-> l1Window,
        l2Head |-> l2Head, l2SafeHead |-> l2SafeHead]
  ELSE [ok |-> TRUE, l1Head |-> newL1Head, l1Window |-> <<>>,
        l2Head |-> u.ref, l2SafeHead |-> s.ref]

\* Lines 266-268: the new head joins the window when it follows its end.
LinearAppendAlways(window, head, newL1Head) == Append(window, newL1Head.self)
LinearAppendNever(window, head, newL1Head) == window
LinearAppend(window, head, newL1Head) ==
  IF l1WindowEndOf(window, head) = newL1Head.parent
  THEN Append(window, newL1Head.self)
  ELSE window

\* ---------------------------------------------------- output pipeline
\* output.step: an error, or the next L2 block, whose origin is the first
\* block of the sequencing window.
OutputStep(safeHead, window, ok) ==
  IF ok /\ safeHead.self.number < MaxL2
  THEN [ok |-> TRUE, ref |-> L2Ref(safeHead.self.number + 1, window[1])]
  ELSE [ok |-> FALSE, ref |-> ZeroL2Ref]

\* output.newBlock: an error, or the child of the unsafe head with the given
\* origin.
OutputNewBlock(head, origin, ok) ==
  IF ok /\ head.self.number < MaxL2
  THEN [ok |-> TRUE, ref |-> L2Ref(head.self.number + 1, origin)]
  ELSE [ok |-> FALSE, ref |-> ZeroL2Ref]

\* ------------------------------------------------------ epoch handler
\* handleEpoch: extend the window when short, take the sequencing window,
\* run the pipeline step, evict the leading entry.
handleEpoch(rangeOk, stepOk) ==
  LET short == Len(l1Window) < SeqWindowSize
      nexts == IF short /\ rangeOk THEN L1Range(l1WindowEnd) ELSE <<>>
      extendedWindow ==
        IF short /\ rangeOk THEN extendL1Window(l1Window, nexts) ELSE l1Window
      sw == sequencingWindow(extendedWindow)
      step == OutputStep(l2SafeHead, sw.window, stepOk)
      unchanged ==
        [head |-> l2Head, safe |-> l2SafeHead, window |-> extendedWindow,
         err |-> FALSE, stepWindows |-> <<>>, nexts |-> nexts]
  IN IF short /\ ~rangeOk THEN [unchanged EXCEPT !.err = TRUE]
     ELSE IF ~sw.ok THEN unchanged
     ELSE IF ~step.ok
     THEN [unchanged EXCEPT !.err = TRUE, !.stepWindows = <<sw.window>>]
     ELSE [unchanged EXCEPT !.head = step.ref, !.safe = step.ref,
                            !.window = EvictHead(extendedWindow),
                            !.stepWindows = <<sw.window>>]

\* ---------------------------------------------------- next L1 origin
\* findNextL1Origin: the origin of l2Head when it is the L1 head; the L1 block
\* of the next number when the L2 time has reached the origin's time; the
\* origin of l2Head otherwise.  `queried` tells whether l1.L1BlockRefByNumber
\* was called, `err` whether that call failed.
findNextL1OriginNoTimeTest(queryOk) ==
  LET currentL1Origin == l2Head.l1Origin
      next == L1BlockRefByNumber(currentL1Origin.number + 1)
  IN IF currentL1Origin.hash = l1Head.self.hash
     THEN [id |-> currentL1Origin, err |-> FALSE, queried |-> FALSE]
     ELSE IF queryOk /\ next.ok
     THEN [id |-> next.ref.self, err |-> FALSE, queried |-> TRUE]
     ELSE [id |-> ZeroID, err |-> TRUE, queried |-> TRUE]
findNextL1Origin(queryOk) ==
  LET currentL1Origin == l2Head.l1Origin
      next == L1BlockRefByNumber(currentL1Origin.number + 1)
  IN IF currentL1Origin.hash = l1Head.self.hash
     THEN [id |-> currentL1Origin, err |-> FALSE, queried |-> FALSE]
     ELSE IF l2Head.self.time + BlockTime >= currentL1Origin.time
     THEN IF queryOk /\ next.ok
          THEN [id |-> next.ref.self, err |-> FALSE, queried |-> TRUE]
          ELSE [id |-> ZeroID, err |-> TRUE, queried |-> TRUE]
     ELSE [id |-> currentL1Origin, err |-> FALSE, queried |-> FALSE]

\* ------------------------------------------------- block production
\* Lines 226-237: the three reasons not to invoke the builder.
ProductionSkippedNoGenesisTest(nextOrigin, head) ==
  \/ nextOrigin.err
  \/ nextOrigin.id.time <= BlockTime + head.self.time
ProductionSkipped(nextOrigin, head) ==
  \/ nextOrigin.err
  \/ nextOrigin.id.time <= BlockTime + head.self.time
  \/ nextOrigin.id.number <= GenesisL1Number

\* Lines 239-245: the unsafe head after the builder returned.
newUnsafeL2HeadUnchecked(head, built) == built.ref
newUnsafeL2Head(head, built) == IF built.ok THEN built.ref ELSE head

\* Line 254: another block is due at once.
CatchUpNeededLate(origin, head) ==
  origin.time > head.self.time + 2 * BlockTime
CatchUpNeeded(origin, head) == origin.time > head.self.time + BlockTime

\* ---------------------------------------------------------------- Init
\* NewState: every chain field holds its zero value.
Init ==
  /\ l1Head = ZeroL1Ref
  /\ l2Head = ZeroL2Ref
  /\ l2SafeHead = ZeroL2Ref
  /\ l2Finalized = ZeroID
  /\ l1Window = <<>>
  /\ sequencer \in BOOLEAN
  /\ stepRequest = 0
  /\ l2BlockCreationReq = 0
  /\ done = FALSE
  /\ pc = "new"
  /\ canon = 0
  /\ tip = 0
  /\ ev = NoEv

\* ------------------------------------------------------- the L1 node
L1Mine ==
  /\ tip < MaxL1
  /\ tip' = tip + 1
  /\ ev' = NoEv
  /\ UNCHANGED <<driverState, sequencer, stepRequest,
                 l2BlockCreationReq, done, pc, canon>>

L1Reorg ==
  /\ tip > ForkAt
  /\ canon' = 1 - canon
  /\ tip' \in (ForkAt + 1)..MaxL1
  /\ ev' = NoEv
  /\ UNCHANGED <<driverState, sequencer, stepRequest,
                 l2BlockCreationReq, done, pc>>

\* ------------------------------------------------------ Start / Close
Start ==
  /\ pc = "new"
  /\ \E ok \in BOOLEAN, k \in 0..(MaxL2 - 1), m \in 0..MaxL1 :
       /\ ev' = [NoEv EXCEPT !.kind = "start", !.ok = ok]
       /\ IF ok
          THEN /\ l1Head' = L1HeadBlockRef
               /\ l2Head' = L2Ref(k, L1ID(m, canon))
               /\ l2SafeHead' = L2Ref(k, L1ID(m, canon))
               /\ pc' = "started"
          ELSE /\ pc' = "failed"
               /\ UNCHANGED <<l1Head, l2Head, l2SafeHead>>
  /\ UNCHANGED <<l2Finalized, l1Window, sequencer, stepRequest,
                 l2BlockCreationReq, done, canon, tip>>

Close ==
  /\ pc \in {"started", "running"}
  /\ ~done
  /\ done' = TRUE
  /\ ev' = [NoEv EXCEPT !.kind = "close"]
  /\ UNCHANGED <<driverState, sequencer, stepRequest,
                 l2BlockCreationReq, pc, canon, tip>>

\* ------------------------------------------------------------ the loop
\* Lines 188-215: the channels are made and the first step is requested.
LoopStart ==
  /\ pc = "started"
  /\ pc' = "running"
  /\ stepRequest' = requestStep(stepRequest)
  /\ ev' = [NoEv EXCEPT !.kind = "loopstart"]
  /\ UNCHANGED <<driverState, sequencer, l2BlockCreationReq, done,
                 canon, tip>>

\* case <-s.done
LoopExit ==
  /\ pc = "running"
  /\ done
  /\ pc' = "stopped"
  /\ ev' = [NoEv EXCEPT !.kind = "exit"]
  /\ UNCHANGED <<driverState, sequencer, stepRequest,
                 l2BlockCreationReq, done, canon, tip>>

\* The ticker exists only for a sequencer; a nil channel is never ready.
TickerArmed == sequencer

\* case <-l2BlockCreation
Tick ==
  /\ pc = "running"
  /\ TickerArmed
  /\ l2BlockCreationReq' = createBlock(l2BlockCreationReq)
  /\ ev' = [NoEv EXCEPT !.kind = "tick",
                         !.absorbed = (l2BlockCreationReq = ChanCap)]
  /\ UNCHANGED <<driverState, sequencer, stepRequest, done, pc,
                 canon, tip>>

\* case <-l2BlockCreationReq
HandleBlockCreationReq ==
  /\ pc = "running"
  /\ l2BlockCreationReq > 0
  /\ \E queryOk \in BOOLEAN, buildOk \in BOOLEAN :
       LET received == l2BlockCreationReq - 1
           nextOrigin == findNextL1Origin(queryOk)
           skip == ProductionSkipped(nextOrigin, l2Head)
           built == OutputNewBlock(l2Head, nextOrigin.id, buildOk)
           again == built.ok /\ CatchUpNeeded(nextOrigin.id, built.ref)
       IN IF skip
          THEN /\ l2Head' = l2Head
               /\ l2BlockCreationReq' = received
               /\ ev' = [NoEv EXCEPT !.kind = "produce", !.ok = FALSE,
                           !.nextOrigin = nextOrigin]
          ELSE /\ l2Head' = newUnsafeL2Head(l2Head, built)
               /\ l2BlockCreationReq' =
                    IF again THEN createBlock(received) ELSE received
               /\ ev' = [NoEv EXCEPT !.kind = "produce", !.ok = built.ok,
                           !.nextOrigin = nextOrigin,
                           !.buildOrigins = <<nextOrigin.id>>,
                           !.batches = IF built.ok THEN 1 ELSE 0]
  /\ UNCHANGED <<l1Head, l2SafeHead, l2Finalized, l1Window, sequencer,
                 stepRequest, done, pc, canon, tip>>

\* A step request posted for these heads finds the channel full.
StepAbsorbed(h1, h2) ==
  /\ LagAtLeastWindow(h1.self.number, h2.l1Origin.number)
  /\ stepRequest = ChanCap

\* Lines 261-269: a received head is the current head, its child, or neither.
ClassifyL1HeadByNumber(head, newL1Head) ==
  IF head.self.number = newL1Head.self.number THEN "same"
  ELSE IF head.self.number = newL1Head.parent.number THEN "linear"
  ELSE "reorg"
ClassifyL1Head(head, newL1Head) ==
  IF head.self.hash = newL1Head.self.hash THEN "same"
  ELSE IF head.self.hash = newL1Head.parent.hash THEN "linear"
  ELSE "reorg"

\* The head received is the one the reorg branch handled in the event before.
Redelivered(newL1Head) == ev.kind = "reorg" /\ ev.head = newL1Head

\* case newL1Head := <-s.l1Heads: the subscription delivers a head the node
\* has at some time announced, on either branch.
HandleL1Head ==
  /\ pc = "running"
  /\ \E newL1Head \in L1Universe :
     /\ IF ClassifyL1Head(l1Head, newL1Head) = "same"
        THEN /\ UNCHANGED <<l1Head, l1Window, l2Head, l2SafeHead>>
             /\ ev' = [NoEv EXCEPT !.kind = "same", !.head = newL1Head,
                         !.redelivered = Redelivered(newL1Head),
                         !.absorbed = StepAbsorbed(l1Head, l2Head)]
        ELSE IF ClassifyL1Head(l1Head, newL1Head) = "linear"
        THEN /\ l1Head' = newL1Head
             /\ l1Window' = LinearAppend(l1Window, l2Head, newL1Head)
             /\ UNCHANGED <<l2Head, l2SafeHead>>
             /\ ev' = [NoEv EXCEPT !.kind = "linear", !.head = newL1Head,
                         !.absorbed = StepAbsorbed(newL1Head, l2Head)]
        ELSE \E failAt \in FailPoints(newL1Head) :
               LET base == findL1ReorgBase(newL1Head, failAt) IN
               IF base.err
               THEN /\ UNCHANGED <<l1Head, l1Window, l2Head, l2SafeHead>>
                    /\ ev' = [NoEv EXCEPT !.kind = "reorg", !.ok = FALSE,
                                !.head = newL1Head,
                                !.queryFailed = base.queryFailed]
               ELSE \E u \in FindUnsafeL2Head(l2Head, base.ref.self) :
                    \E s \in IF u.ok THEN FindSafeL2Head(l2Head, base.ref.self)
                             ELSE {NotCalled} :
                      LET r == ReorgApply(newL1Head, u, s) IN
                      /\ l1Head' = r.l1Head
                      /\ l1Window' = r.l1Window
                      /\ l2Head' = r.l2Head
                      /\ l2SafeHead' = r.l2SafeHead
                      /\ ev' = [NoEv EXCEPT !.kind = "reorg", !.ok = r.ok,
                                  !.head = newL1Head,
                                  !.queryFailed = base.queryFailed,
                                  !.finderBases = <<base.ref.self>>,
                                  !.absorbed =
                                    r.ok /\ StepAbsorbed(r.l1Head, r.l2Head)]
     \* a `continue` of the reorg branch skips the lag test
     /\ IF ev'.ok /\ LagAtLeastWindow(l1Head'.self.number,
                                      l2Head'.l1Origin.number)
        THEN stepRequest' = requestStep(stepRequest)
        ELSE UNCHANGED stepRequest
  /\ UNCHANGED <<l2Finalized, sequencer, l2BlockCreationReq, done, pc,
                 canon, tip>>

\* if s.sequencer { continue }
StepSkippedNever == FALSE
StepSkipped == sequencer

\* case <-stepRequest
HandleStepRequest ==
  /\ pc = "running"
  /\ stepRequest > 0
  /\ IF StepSkipped
     THEN /\ stepRequest' = stepRequest - 1
          /\ ev' = [NoEv EXCEPT !.kind = "skipped"]
          /\ UNCHANGED <<l2Head, l2SafeHead, l1Window>>
     ELSE \E rangeOk \in BOOLEAN, stepOk \in BOOLEAN :
            LET r == handleEpoch(rangeOk, stepOk)
                again == LagAtLeastWindow(l1Head.self.number,
                                          r.head.l1Origin.number)
            IN /\ l2Head' = r.head
               /\ l2SafeHead' = r.safe
               /\ l1Window' = r.window
               /\ stepRequest' = IF again THEN requestStep(stepRequest - 1)
                                 ELSE stepRequest - 1
               /\ ev' = [NoEv EXCEPT !.kind = "epoch", !.ok = ~r.err,
                           !.stepWindows = r.stepWindows,
                           !.fetched = Len(r.nexts)]
  /\ UNCHANGED <<l1Head, l2Finalized, sequencer,
                 l2BlockCreationReq, done, pc, canon, tip>>

Next ==
  \/ L1Mine
  \/ L1Reorg
  \/ Start
  \/ Close
  \/ LoopStart
  \/ LoopExit
  \/ Tick
  \/ HandleBlockCreationReq
  \/ HandleL1Head
  \/ HandleStepRequest

Spec == Init /\ [][Next]_vars

\* The loop fed a strictly linear chain of L1 heads and not closed: every
\* head received is a child of l1Head; the timer, production and step cases
\* run as in Spec.
HandleLinearL1Head == HandleL1Head /\ ev'.kind = "linear"

NextLinear ==
  \/ L1Mine
  \/ L1Reorg
  \/ Start
  \/ LoopStart
  \/ Tick
  \/ HandleBlockCreationReq
  \/ HandleLinearL1Head
  \/ HandleStepRequest

SpecLinear == Init /\ [][NextLinear]_vars

\* The loop with no L1 head delivered and not closed, so that the recorded
\* L1 head is fixed after Start; the timer, production and step cases run.  A
\* select picks among its ready cases at random, so a production request that
\* stays pending is eventually received.
NextCatchUp ==
  \/ L1Mine
  \/ L1Reorg
  \/ Start
  \/ LoopStart
  \/ Tick
  \/ HandleBlockCreationReq
  \/ HandleStepRequest

SpecCatchUp ==
  Init /\ [][NextCatchUp]_vars /\ WF_vars(HandleBlockCreationReq)

\* ================================================================ claims
Started == pc \in {"started", "running", "stopped"}

chainFields == <<l1Head, l1Window, l2Head, l2SafeHead>>

\* The step of the pipeline ran and succeeded in the event just handled.
StepSucceeded(e) == e.kind = "epoch" /\ e.ok /\ e.stepWindows # <<>>

\* The window as handleEpoch hands it to sequencingWindow.
WindowAtStep ==
  IF Len(l1Window) < SeqWindowSize
  THEN l1Window \o L1Range(l1WindowEnd)
  ELSE l1Window

\* The blocks after `origin` up to `head`, on the chain of `head`.
BlocksAfter(origin, head) ==
  [i \in 1..(IF head.number > origin.number
             THEN head.number - origin.number ELSE 0) |->
     L1ID(origin.number + i, BranchOf(head))]

\* C1: when an L1 query of the common-ancestor search fails, the reorg
\* resolution is aborted: l1Head, l1Window, l2Head and l2SafeHead keep their
\* values and no head finder is invoked with a base.
C1_QueryFailureAborts ==
  [][(ev'.kind = "reorg" /\ ev'.queryFailed) =>
       (UNCHANGED chainFields /\ ev'.finderBases = <<>>)]_vars

\* C2: a reorg resolution is all-or-nothing: either l1Head is the new head,
\* l1Window is empty and l2Head and l2SafeHead are results of the finders for
\* the base the search returned, or the four fields are unchanged.
C2_ReorgAllOrNothing ==
  [][ev'.kind = "reorg" =>
       /\ ev'.head.self.hash # l1Head.self.hash
       /\ ev'.head.parent.hash # l1Head.self.hash
       /\ \/ /\ ev'.ok
             /\ l1Head' = ev'.head
             /\ l1Window' = <<>>
             /\ \E u \in FindUnsafeL2Head(l2Head, ev'.finderBases[1]) :
                  u.ok /\ l2Head' = u.ref
             /\ \E f \in FindSafeL2Head(l2Head, ev'.finderBases[1]) :
                  f.ok /\ l2SafeHead' = f.ref
          \/ /\ ~ev'.ok
             /\ UNCHANGED chainFields]_vars

C2_Witness ==
  /\ ev.kind = "reorg"
  /\ ev.ok
  /\ l1Head = ev.head
  /\ l2Head # l2SafeHead

\* C3: both request channels hold at most one request: a post that meets a
\* pending request is absorbed, and one receive empties the channel, so any
\* number of posts made before a receive runs the handler once.
C3_Coalescing ==
  /\ [](stepRequest \in 0..1 /\ l2BlockCreationReq \in 0..1)
  /\ [](ev.kind = "tick" => l2BlockCreationReq = 1)
  /\ []((ev.kind \in {"same", "linear", "reorg"} /\ ev.absorbed)
          => stepRequest = 1)
  /\ [][ev'.kind \in {"epoch", "skipped"} =>
          /\ stepRequest = 1
          /\ stepRequest' =
               (IF ev'.kind = "epoch" /\
                   LagAtLeastWindow(l1Head'.self.number,
                                    l2Head'.l1Origin.number)
                THEN 1 ELSE 0)]_vars
  /\ [][ev'.kind = "produce" =>
          /\ l2BlockCreationReq = 1
          /\ l2BlockCreationReq' =
               (IF ev'.batches = 1 /\
                   ev'.buildOrigins[1].time > l2Head'.self.time + BlockTime
                THEN 1 ELSE 0)]_vars

C3_Witness ==
  /\ ev.kind = "tick"
  /\ ev.absorbed
  /\ stepRequest = 1
  /\ l2BlockCreationReq = 1

\* C4: a sequencer never invokes the pipeline's step and its step requests
\* leave l2Head, l2SafeHead and l1Window unchanged; a follower never invokes
\* the block builder and never has a production request pending.
C4_RoleGating ==
  /\ [](sequencer => (ev.kind # "epoch" /\ ev.stepWindows = <<>>))
  /\ [](~sequencer => /\ ev.kind \notin {"tick", "produce"}
                      /\ ev.buildOrigins = <<>>
                      /\ l2BlockCreationReq = 0)
  /\ [][(sequencer /\ ev'.kind = "skipped") =>
          UNCHANGED <<l2Head, l2SafeHead, l1Window>>]_vars

C4_Witness ==
  /\ sequencer
  /\ ev.kind = "skipped"
  /\ LagAtLeastWindow(l1Head.self.number, l2Head.l1Origin.number)

\* C5: after Start the safe head's L1 origin is never above the L1 head.
C5_SafeOriginNotAboveL1Head ==
  Started => l2SafeHead.l1Origin.number <= l1Head.self.number

\* C6: the entries of l1Window are strictly sequential in block number.
C6_WindowSequential ==
  \A i \in 1..(Len(l1Window) - 1) :
    l1Window[i + 1].number = l1Window[i].number + 1

C6_Witness ==
  /\ Len(l1Window) >= 2
  /\ ev.kind = "linear"

\* C7: a non-empty l1Window starts with the L1 block right after the safe
\* head's origin, also after an extension of an empty window.
C7_WindowAnchoredToSafeHead ==
  l1Window # <<>> => l1Window[1].number = l2SafeHead.l1Origin.number + 1

\* C8 as stated: after every update of a linear chain of L1 heads, l1Window
\* is exactly the blocks after l2SafeHead.l1Origin up to l1Head.
C8_LinearWindowComplete ==
  ev.kind = "linear" =>
    l1Window = BlocksAfter(l2SafeHead.l1Origin, l1Head.self)

\* C8 as amended: a linear update appends the new head exactly when the
\* window end (the last entry, or l2Head.l1Origin when the window is empty)
\* is the previous l1Head, and leaves l1Window as it is otherwise; a
\* non-empty window that is exactly the blocks after l2SafeHead.l1Origin up
\* to l1Head is so again after the update.
C8_LinearAppend ==
  [][ev'.kind = "linear" =>
       /\ l1Head' = ev'.head
       /\ ev'.head.parent.hash = l1Head.self.hash
       /\ IF l1WindowEnd = l1Head.self
          THEN /\ l1Window' = Append(l1Window, ev'.head.self)
               /\ l1WindowEndOf(l1Window', l2Head') = l1Head'.self
          ELSE l1Window' = l1Window
       /\ (/\ l1Window # <<>>
           /\ l1Window = BlocksAfter(l2SafeHead.l1Origin, l1Head.self))
            => l1Window' = BlocksAfter(l2SafeHead'.l1Origin, l1Head'.self)]_vars

C8_Witness ==
  /\ ev.kind = "linear"
  /\ Len(l1Window) = 2
  /\ l1Window = BlocksAfter(l2SafeHead.l1Origin, l1Head.self)

\* C9 as stated: a successful epoch step leaves l1Window one entry shorter
\* than before the step, the former entries 2..n in unchanged order.
C9_WindowShrinksByOne ==
  [][StepSucceeded(ev') =>
       (Len(l1Window') = Len(l1Window) - 1 /\ l1Window' = Tail(l1Window))]_vars

\* C9 as amended: a successful epoch step evicts exactly the leading entry of
\* the window the pipeline was invoked on, which is the former window followed
\* by the blocks the extension fetched.
C9_EvictsLeadingEntry ==
  [][StepSucceeded(ev') =>
       /\ Len(l1Window') = Len(l1Window) + ev'.fetched - 1
       /\ l1Window' = Tail(WindowAtStep)
       /\ ev'.fetched = 0 => l1Window' = Tail(l1Window)]_vars

C9_Witness ==
  /\ StepSucceeded(ev)
  /\ ev.fetched > 0
  /\ l1Window # <<>>

\* C10: the pipeline step is invoked only on the first seqWindowSize entries
\* of l1Window; on success its result becomes l2Head and l2SafeHead; in every
\* other case both heads are unchanged and no window entry is evicted.
C10_StepOnlyOnFullWindow ==
  [][ev'.kind = "epoch" =>
       /\ \A i \in 1..Len(ev'.stepWindows) :
            /\ Len(ev'.stepWindows[i]) = SeqWindowSize
            /\ ev'.stepWindows[i] = SubSeq(WindowAtStep, 1, SeqWindowSize)
       /\ IF StepSucceeded(ev')
          THEN /\ l2Head' = l2SafeHead'
               /\ l2Head' = OutputStep(l2SafeHead, ev'.stepWindows[1], TRUE).ref
          ELSE /\ UNCHANGED <<l2Head, l2SafeHead>>
               /\ Len(l1Window') = Len(l1Window) + ev'.fetched
               /\ SubSeq(l1Window', 1, Len(l1Window)) = l1Window
               /\ (ev'.stepWindows = <<>> /\ ev'.ok)
                    => Len(l1Window') < SeqWindowSize]_vars

C10_Witness ==
  /\ ev.kind = "epoch"
  /\ ~ev.ok
  /\ ev.stepWindows # <<>>
  /\ ev.fetched > 0

HeadEvent(e) == e.kind \in {"same", "linear", "reorg"}

\* C11: after a new L1 head was processed without a resolution failure, and
\* after a follower processed a step request, a step request is pending
\* whenever l1Head.number - l2Head.l1Origin.number >= seqWindowSize.
C11_LagPostsStep ==
  [][((HeadEvent(ev') /\ ev'.ok) \/ ev'.kind = "epoch") =>
       (l1Head'.self.number - l2Head'.l1Origin.number >= SeqWindowSize
          => stepRequest' = 1)]_vars

C11_Witness ==
  /\ ev.kind = "linear"
  /\ ~ev.absorbed
  /\ l1Head.self.number - l2Head.l1Origin.number = SeqWindowSize
  /\ stepRequest = 1

\* C12: in every handling of a production request, if findNextL1Origin
\* failed, or nextOrigin.time <= blockTime + l2Head.time, or
\* nextOrigin.number <= genesis.l1.number, the builder is not invoked, l2Head
\* is unchanged and no batch is dispatched.
C12_NoBuildForIneligibleOrigin ==
  [][ev'.kind = "produce" =>
       /\ \E queryOk \in BOOLEAN : ev'.nextOrigin = findNextL1Origin(queryOk)
       /\ (\/ ev'.nextOrigin.err
           \/ ev'.nextOrigin.id.time <= BlockTime + l2Head.self.time
           \/ ev'.nextOrigin.id.number <= GenesisL1Number)
            => /\ ev'.buildOrigins = <<>>
               /\ l2Head' = l2Head
               /\ ev'.batches = 0]_vars

C12_Witness ==
  /\ ev.kind = "produce"
  /\ ~ev.nextOrigin.err
  /\ ev.nextOrigin.id.number <= GenesisL1Number
  /\ ev.nextOrigin.id.time > BlockTime + l2Head.self.time
  /\ ev.buildOrigins = <<>>

\* C13: findNextL1Origin returns l2Head.l1Origin, without an L1 query, when
\* its hash is l1Head's hash; otherwise, when l2Head.time + blockTime >=
\* currentOrigin.time, the result of the L1 query for the block numbered
\* currentOrigin.number + 1; otherwise l2Head.l1Origin, without a query.  It
\* changes no field of the driver state.
C13_NextOrigin ==
  [][ev'.kind = "produce" =>
       LET currentOrigin == l2Head.l1Origin
           r == ev'.nextOrigin
           next == L1BlockRefByNumber(currentOrigin.number + 1)
       IN /\ IF currentOrigin.hash = l1Head.self.hash
             THEN r.id = currentOrigin /\ ~r.err /\ ~r.queried
             ELSE IF l2Head.self.time + BlockTime >= currentOrigin.time
             THEN r.queried /\ (~r.err => (next.ok /\ r.id = next.ref.self))
             ELSE r.id = currentOrigin /\ ~r.err /\ ~r.queried
          /\ ev'.buildOrigins = <<>> => UNCHANGED driverState]_vars

C13_Witness ==
  /\ ev.kind = "produce"
  /\ ev.nextOrigin.queried
  /\ ~ev.nextOrigin.err
  /\ ev.nextOrigin.id.number = l2Head.l1Origin.number + 1
  /\ ev.buildOrigins = <<>>

\* C14: once the shutdown signal has been given, no event the loop handles
\* changes the driver state.
C14_NoMutationAfterShutdown ==
  [][done => UNCHANGED driverState]_vars

\* C15 as stated: a discontinuous new L1 head delivered twice in a row leaves
\* l1Head, l2Head and l2SafeHead after the second delivery as they were after
\* the first, and the second delivery does not run the resolver.
C15_RedeliveryIsNoOp ==
  [][(HeadEvent(ev') /\ Redelivered(ev'.head)) =>
       (ev'.kind = "same" /\ UNCHANGED <<l1Head, l2Head, l2SafeHead>>)]_vars

\* C15 as amended: when the first delivery resolved the reorg, the second is
\* a same-head event that runs no resolver and changes no chain field; when
\* the first resolution failed, the second delivery runs the resolver again.
C15_RedeliveryAfterResolution ==
  [][(HeadEvent(ev') /\ Redelivered(ev'.head)) =>
       IF ev.ok
       THEN /\ ev'.kind = "same"
            /\ ev'.redelivered
            /\ ev'.finderBases = <<>>
            /\ ~ev'.queryFailed
            /\ UNCHANGED chainFields
       ELSE ev'.kind = "reorg"]_vars

C15_Witness ==
  /\ ev.kind = "same"
  /\ ev.redelivered
  /\ l1Head = ev.head
  /\ l1Window = <<>>

\* C16: a new L1 head is classified by hash: equal to l1Head's hash, no
\* state field changes; parent hash equal to l1Head's hash, l1Head is
\* replaced, the new block is appended to l1Window only when the window end
\* is the new head's parent, l2Head and l2SafeHead are unchanged and nothing
\* is queried; the resolver runs only in the remaining case.
C16_HeadClassification ==
  [][HeadEvent(ev') =>
       /\ (ev'.kind = "same") <=> (ev'.head.self.hash = l1Head.self.hash)
       /\ (ev'.kind = "linear") <=>
            (/\ ev'.head.self.hash # l1Head.self.hash
             /\ ev'.head.parent.hash = l1Head.self.hash)
       /\ (ev'.kind = "same") => UNCHANGED driverState
       /\ (ev'.kind = "linear") =>
            /\ l1Head' = ev'.head
            /\ l1Window' =
                 (IF l1WindowEndOf(l1Window, l2Head) = ev'.head.parent
                  THEN Append(l1Window, ev'.head.self)
                  ELSE l1Window)
            /\ UNCHANGED <<l2Head, l2SafeHead, l2Finalized>>
       /\ (ev'.finderBases # <<>> \/ ev'.queryFailed) => ev'.kind = "reorg"]_vars

C16_Witness ==
  /\ ev.kind = "linear"
  /\ l1Head = ev.head
  /\ l1Window = <<>>
  /\ l2Head.l1Origin # ev.head.parent

\* C17: a successful block production makes l2Head the block the builder
\* returned and dispatches exactly one batch; l1Head, l2SafeHead, l2Finalized
\* and l1Window are unchanged; a builder failure changes nothing and
\* dispatches nothing.  No event changes l2Finalized.
C17_ProductionFrame ==
  /\ [](l2Finalized = ZeroID)
  /\ [][ev'.kind = "produce" =>
          /\ UNCHANGED <<l1Head, l2SafeHead, l2Finalized, l1Window>>
          /\ IF ev'.ok
             THEN /\ ev'.batches = 1
                  /\ l2Head' =
                       OutputNewBlock(l2Head, ev'.buildOrigins[1], TRUE).ref
             ELSE /\ ev'.batches = 0
                  /\ l2Head' = l2Head]_vars

C17_Witness ==
  /\ ev.kind = "produce"
  /\ ev.ok
  /\ ev.batches = 1
  /\ l2Head.l1Origin = ev.buildOrigins[1]
  /\ l2Head # l2SafeHead

\* C18: right after a successful production, a production request is
\* pending when nextOrigin.time > l2Head.time + blockTime for the new l2Head;
\* each production advances the L2 time, and with the recorded L1 head fixed
\* the catch-up cycles end: the request channel is empty again and again.
C18_CatchUp ==
  /\ [][(ev'.kind = "produce" /\ ev'.ok) =>
          /\ l2Head'.self.time > l2Head.self.time
          /\ (ev'.buildOrigins[1].time > l2Head'.self.time + BlockTime)
               <=> (l2BlockCreationReq' = 1)]_vars
  /\ []<>(l2BlockCreationReq = 0)

C18_Witness ==
  /\ ev.kind = "produce"
  /\ ev.ok
  /\ ev.buildOrigins[1].time > l2Head.self.time + BlockTime
  /\ l2BlockCreationReq = 1

\* C19: after a failed epoch step no step request is pending, so the step
\* is not run again before a new L1 head arrives.  Stated for the states
\* where l2Head.l1Origin is not above l1Head, in which the lag test does not
\* wrap.
C19_NoRetryAfterFailure ==
  [][(/\ ev'.kind = "epoch"
      /\ ~ev'.ok
      /\ l2Head.l1Origin.number <= l1Head.self.number) =>
       stepRequest' = 0]_vars

\* C20: the L1-head and step handlers post a step request only when
\* l1Head.number >= l2Head.l1Origin.number + seqWindowSize.
C20_LagTestSound ==
  [][(\/ ev'.kind = "epoch" /\ stepRequest' = 1
      \/ HeadEvent(ev') /\ (ev'.absorbed \/ stepRequest' > stepRequest))
       => l1Head'.self.number >= l2Head'.l1Origin.number + SeqWindowSize]_vars

====
